---- MODULE Spec2Model ----
(***************************************************************************)
(* Model of bibigrid/core/startup.py: the logger facility (setup_logger,   *)
(* set_logger_verbosity), the cluster-memory reader                        *)
(* (get_cluster_id_from_mem), the dispatch engine (run_action) and the     *)
(* command-line entry point (main).                                        *)
(*                                                                         *)
(* Two specifications:                                                     *)
(*   Spec        one process run: module load, main, run_action, exit.     *)
(*   SpecLogger  the logger functions called as an API, in any order.      *)
(***************************************************************************)
EXTENDS Integers, Sequences, FiniteSets, TLC

VARIABLES pc, logger, consoleOut, fileOut, lastCall, setupCalls, logCalls,
          args, memFile, memCall, configurations, providers, closeIdx,
          selected, exit_state, exitCode, start_time, trace, raisedIn,
          propagated

\* pc              position in module load, main and run_action
\* logger          the channel "bibigrid": its level and its handlers
\* consoleOut      lines written by console handlers, fileOut by file handlers
\* lastCall        the most recent call of the logger API, with its result
\* setupCalls      calls of setup_logger so far; logCalls: other logger calls
\* args            the namespace built by main (lines 252-266)
\* memFile         state of the record at CLUSTER_MEMORY_PATH
\* memCall         result of the get_cluster_id_from_mem call, if made
\* configurations  result of read_configuration / merge_configurations
\* providers       whether get_providers returned, and close() calls per handle
\* closeIdx        handles the loop of line 156 has visited
\* selected        the action whose entry point is called
\* exit_state      run_action's exit_state; exitCode: the process exit code
\* start_time      whether line 119 has run
\* trace           the calls made so far, in order
\* raisedIn        the call that raised, if any; propagated: it was not caught
vars == <<pc, logger, consoleOut, fileOut, lastCall, setupCalls, logCalls,
          args, memFile, memCall, configurations, providers, closeIdx,
          selected, exit_state, exitCode, start_time, trace, raisedIn,
          propagated>>

loggerVars == <<logger, consoleOut, fileOut, lastCall, setupCalls, logCalls>>
runVars == <<args, memFile, memCall, configurations, providers, closeIdx,
             selected, exit_state, exitCode, start_time, trace, raisedIn,
             propagated>>

(***************************************************************************)
(* Bounds of the model.                                                    *)
(***************************************************************************)
MaxVerbosity == 3
MaxSetupCalls == 2
MaxLogCalls == 2
MaxProviders == 2
MaxExitCode == 2

(***************************************************************************)
(* Severities: the ranks of Python's logging module and the synthetic     *)
(* PRINT level registered by setup_logger.                                 *)
(***************************************************************************)
NOTSET == 0
DEBUG == 10
INFO == 20
WARNING == 30
ERROR == 40
\* a custom level placed between INFO and WARNING
PRINT_LEVEL_below_warning == WARNING - 5

PRINT_LEVEL == 42

BuiltInSeverities == {DEBUG, INFO, WARNING, ERROR}
Severities == BuiltInSeverities \cup {PRINT_LEVEL}

VERBOSITY_LIST == <<WARNING, INFO, DEBUG>>

\* console_level of the one setup_logger call the program makes
ConsoleLevelAtLoad == 1
\* file_level default of setup_logger
FileLevelDefault == DEBUG
\* verbosity of the one set_logger_verbosity call the program makes
VerbosityAtLoad == 1

None == "None"
\* an integer variable that holds no value yet
Unset == 0 - 1

Min(a, b) == IF a < b THEN a ELSE b

Copies(n, r) == [i \in 1..n |-> r]

(***************************************************************************)
(* Python's logging.Logger, as far as startup.py uses it.  A logger is a   *)
(* record [level, handlers]; a handler is [kind, level].  The root logger  *)
(* keeps its default level WARNING and has no handlers (basicConfig is     *)
(* never called), so nothing is emitted by propagation.                    *)
(***************************************************************************)
FreshLogger == [level |-> NOTSET, handlers |-> << >>]

\* Logger.getEffectiveLevel: the logger's own level, else the root's
getEffectiveLevel(lg) == IF lg.level # NOTSET THEN lg.level ELSE WARNING

\* Logger.isEnabledFor
isEnabledFor(lg, lvl) == lvl >= getEffectiveLevel(lg)

\* Logger.hasHandlers (no ancestor has a handler)
hasHandlers(lg) == Len(lg.handlers) > 0

\* number of lines one message of severity lvl produces on the sinks of a kind
Lines(lg, kind, lvl) ==
  IF isEnabledFor(lg, lvl)
  THEN Cardinality({i \in DOMAIN lg.handlers :
                      /\ lg.handlers[i].kind = kind
                      /\ lvl >= lg.handlers[i].level})
  ELSE 0

\* what a sequence of log calls (records [lvl, msg]) writes to the sinks of a kind
RECURSIVE Emitted(_, _, _)
Emitted(lg, kind, recs) ==
  IF recs = << >> THEN << >>
  ELSE Copies(Lines(lg, kind, Head(recs).lvl), Head(recs))
         \o Emitted(lg, kind, Tail(recs))

Rec(lvl, msg) == [lvl |-> lvl, msg |-> msg]

(***************************************************************************)
(* setup_logger (lines 23-72).  Result: the logger and whether the call    *)
(* raised.  FileHandler(log_file) opens the file and raises OSError when   *)
(* it cannot; by then the old handlers are cleared and none is attached.   *)
(***************************************************************************)
clear_handlers_skipped(lg) == lg

clear_handlers(lg) ==
  IF hasHandlers(lg) THEN [lg EXCEPT !.handlers = << >>] ELSE lg

setup_logger(lg, console_level, file_level, file_ok) ==
  LET gated == [lg EXCEPT !.level = DEBUG]
      cleared == clear_handlers(gated)
      console_handler == [kind |-> "console", level |-> console_level]
      file_handler == [kind |-> "file", level |-> file_level]
  IN IF ~file_ok
     THEN [logger |-> cleared, raised |-> TRUE]
     ELSE [logger |-> [cleared EXCEPT !.handlers =
                          Append(Append(@, console_handler), file_handler)],
           raised |-> FALSE]

(***************************************************************************)
(* set_logger_verbosity (lines 94-102).  Result: the logger and the log    *)
(* calls made (the debug confirmation).                                    *)
(***************************************************************************)
capped_verbosity_off_by_one(verbosity) == Min(verbosity, Len(VERBOSITY_LIST) - 2)

capped_verbosity(verbosity) == Min(verbosity, Len(VERBOSITY_LIST) - 1)

set_logger_verbosity(lg, verbosity) ==
  [logger |-> [lg EXCEPT !.level = VERBOSITY_LIST[capped_verbosity(verbosity) + 1]],
   calls |-> << Rec(DEBUG, "verbosity_set") >>]

(***************************************************************************)
(* SpecLogger: setup_logger, set_logger_verbosity and the logging methods  *)
(* called as an API on the channel "bibigrid".                             *)
(***************************************************************************)
NoCall == [op |-> "none", arg |-> 0, raised |-> FALSE, console |-> 0, file |-> 0]

NoArgs ==
  [version |-> FALSE, terminate |-> FALSE, create |-> FALSE, list |-> FALSE,
   check |-> FALSE, ide |-> FALSE, update |-> FALSE,
   cluster_id |-> None, debug |-> FALSE, verbose |-> 0]

NoMemCall == [called |-> FALSE, raised |-> FALSE, value |-> None, warnings |-> 0]

NoProviders == [bound |-> FALSE, closed |-> << >>]

InitRun ==
  /\ args = NoArgs
  /\ memCall = NoMemCall
  /\ configurations = "unset"
  /\ providers = NoProviders
  /\ closeIdx = 0
  /\ selected = None
  /\ exit_state = Unset
  /\ exitCode = Unset
  /\ start_time = "unset"
  /\ trace = << >>
  /\ raisedIn = None
  /\ propagated = FALSE

InitLoggerState ==
  /\ logger = FreshLogger
  /\ consoleOut = << >>
  /\ fileOut = << >>
  /\ lastCall = NoCall
  /\ setupCalls = 0
  /\ logCalls = 0

MemStates == {"absent", "unparseable", "not_mapping", "no_field", "valid"}

InitLogger ==
  /\ pc = "api"
  /\ InitLoggerState
  /\ InitRun
  /\ memFile = "absent"

ApiSetupLogger ==
  /\ pc = "api"
  /\ setupCalls < MaxSetupCalls
  /\ \E file_ok \in BOOLEAN :
       LET r == setup_logger(logger, ConsoleLevelAtLoad, FileLevelDefault, file_ok)
       IN /\ logger' = r.logger
          /\ pc' = IF r.raised THEN "fatal" ELSE "api"
          /\ lastCall' = [NoCall EXCEPT !.op = "setup_logger", !.raised = r.raised]
  /\ setupCalls' = setupCalls + 1
  /\ UNCHANGED <<consoleOut, fileOut, logCalls>>
  /\ UNCHANGED runVars

ApiSetLoggerVerbosity ==
  /\ pc = "api"
  /\ setupCalls >= 1
  /\ logCalls < MaxLogCalls
  /\ \E v \in 0..MaxVerbosity :
       LET r == set_logger_verbosity(logger, v)
       IN /\ logger' = r.logger
          /\ consoleOut' = consoleOut \o Emitted(r.logger, "console", r.calls)
          /\ fileOut' = fileOut \o Emitted(r.logger, "file", r.calls)
          /\ lastCall' = [NoCall EXCEPT !.op = "set_logger_verbosity", !.arg = v]
  /\ logCalls' = logCalls + 1
  /\ UNCHANGED <<pc, setupCalls>>
  /\ UNCHANGED runVars

ApiLog ==
  /\ pc = "api"
  /\ setupCalls >= 1
  /\ logCalls < MaxLogCalls
  /\ \E lvl \in Severities :
       LET recs == << Rec(lvl, "message") >>
       IN /\ consoleOut' = consoleOut \o Emitted(logger, "console", recs)
          /\ fileOut' = fileOut \o Emitted(logger, "file", recs)
          /\ lastCall' = [NoCall EXCEPT !.op = "log", !.arg = lvl,
                                        !.console = Lines(logger, "console", lvl),
                                        !.file = Lines(logger, "file", lvl)]
  /\ logCalls' = logCalls + 1
  /\ UNCHANGED <<pc, logger, setupCalls>>
  /\ UNCHANGED runVars

NextLogger == ApiSetupLogger \/ ApiSetLoggerVerbosity \/ ApiLog

SpecLogger == InitLogger /\ [][NextLogger]_vars

(***************************************************************************)
(* get_cluster_id_from_mem (lines 76-91).  memFile is the state of the     *)
(* record at CLUSTER_MEMORY_PATH:                                          *)
(*   absent       os.path.isfile is false                                  *)
(*   unparseable  yaml.safe_load raises yaml.YAMLError                     *)
(*   not_mapping  the file parses to a value without .get (an empty file   *)
(*                parses to None)                                          *)
(*   no_field     a mapping without the key cluster_id                     *)
(*   valid        a mapping with cluster_id = StoredClusterId              *)
(* Both warnings are written through the name LOG.  Looking up a name that *)
(* the module never binds raises NameError.                                *)
(***************************************************************************)
StoredClusterId == "cidM"

\* the names startup.py binds at module level (imports, assignments, defs)
ModuleGlobals ==
  {"click", "logging", "math", "os", "sys", "time", "traceback",
   "SimpleNamespace", "yaml", "check", "create", "ide", "list_clusters",
   "terminate", "update", "version", "command_line_interpreter",
   "configuration_handler", "provider_handler", "CLUSTER_MEMORY_PATH",
   "VERBOSITY_LIST", "setup_logger", "get_cluster_id_from_mem",
   "set_logger_verbosity", "run_action", "logger", "main"}

NameBound(name) == name \in ModuleGlobals

MemResult(raised, value, warnings) ==
  [called |-> TRUE, raised |-> raised, value |-> value, warnings |-> warnings]

\* line 90 and the return after it
mem_not_found(warnings) ==
  IF NameBound("LOG")
  THEN MemResult(FALSE, None, warnings + 1)
  ELSE MemResult(TRUE, None, warnings)

\* the record is read under another key, so a valid record yields None
get_cluster_id_from_mem_wrong_key(mem) ==
  CASE mem = "absent" -> mem_not_found(0)
    [] mem = "unparseable" ->
         IF NameBound("LOG") THEN mem_not_found(1) ELSE MemResult(TRUE, None, 0)
    [] mem = "not_mapping" -> MemResult(TRUE, None, 0)
    [] mem = "no_field" -> MemResult(FALSE, None, 0)
    [] mem = "valid" -> MemResult(FALSE, None, 0)

get_cluster_id_from_mem(mem) ==
  CASE mem = "absent" -> mem_not_found(0)
    [] mem = "unparseable" ->
         IF NameBound("LOG") THEN mem_not_found(1) ELSE MemResult(TRUE, None, 0)
    [] mem = "not_mapping" -> MemResult(TRUE, None, 0)
    [] mem = "no_field" -> MemResult(FALSE, None, 0)
    [] mem = "valid" -> MemResult(FALSE, StoredClusterId, 0)

(***************************************************************************)
(* The process: module load (lines 199-200), main (lines 217-270) and      *)
(* run_action (lines 106-169), one step per call to a collaborator.        *)
(***************************************************************************)
ActionNames == <<"version", "terminate", "create", "list", "check", "ide", "update">>

\* the list `actions` of line 228
actions_of(a) == <<a.version, a.terminate, a.create, a.list, a.check, a.ide, a.update>>

\* Python's sum over a list of booleans
RECURSIVE sum(_)
sum(bs) == IF bs = << >> THEN 0 ELSE (IF Head(bs) THEN 1 ELSE 0) + sum(Tail(bs))

\* a cluster id is None, the empty string or a non-empty string
ClusterIds == {None, "", "cidA"}
Truthy(cid) == cid # None /\ cid # ""

Ev(ev, what) == [ev |-> ev, what |-> what]

Log(recs) ==
  /\ consoleOut' = consoleOut \o Emitted(logger, "console", recs)
  /\ fileOut' = fileOut \o Emitted(logger, "file", recs)

Init ==
  /\ pc = "init"
  /\ InitLoggerState
  /\ InitRun
  /\ memFile \in MemStates

\* lines 199-200: logger = setup_logger(console_level=1); set_logger_verbosity(logger, 1)
ModuleLoad ==
  /\ pc = "init"
  /\ \E file_ok \in BOOLEAN :
       LET r == setup_logger(logger, ConsoleLevelAtLoad, FileLevelDefault, file_ok)
           s == set_logger_verbosity(r.logger, VerbosityAtLoad)
       IN IF r.raised
          THEN /\ logger' = r.logger
               /\ pc' = "exited"
               /\ exitCode' = 1
               /\ propagated' = TRUE
               /\ raisedIn' = "setup_logger"
               /\ UNCHANGED <<consoleOut, fileOut>>
          ELSE /\ logger' = s.logger
               /\ consoleOut' = consoleOut \o Emitted(s.logger, "console", s.calls)
               /\ fileOut' = fileOut \o Emitted(s.logger, "file", s.calls)
               /\ pc' = "loaded"
               /\ UNCHANGED <<exitCode, propagated, raisedIn>>
  /\ setupCalls' = setupCalls + 1
  /\ UNCHANGED <<lastCall, logCalls, args, memFile, memCall, configurations,
                 providers, closeIdx, selected, exit_state, start_time, trace>>

\* line 229
usage_error_more_than_one(actions) == sum(actions) > 1

usage_error(actions) == sum(actions) # 1

\* main applies the supplied verbosity (the call commented out at line 234)
MainValidate_applies_verbosity ==
  /\ pc = "loaded"
  /\ \E fl \in [1..7 -> BOOLEAN], cid \in ClusterIds, dbg \in BOOLEAN, v \in 0..MaxVerbosity :
       /\ args' = [version |-> fl[1], terminate |-> fl[2], create |-> fl[3],
                   list |-> fl[4], check |-> fl[5], ide |-> fl[6], update |-> fl[7],
                   cluster_id |-> cid, debug |-> dbg, verbose |-> v]
       /\ IF usage_error(actions_of(args'))
          THEN /\ pc' = "exited"
               /\ exitCode' = 2
               /\ trace' = trace \o << Ev("main", cid), Ev("usage_error", None) >>
               /\ UNCHANGED <<logger, consoleOut, fileOut>>
          ELSE /\ pc' = "main_read"
               /\ trace' = Append(trace, Ev("main", cid))
               /\ logger' = set_logger_verbosity(logger, v).logger
               /\ consoleOut' = consoleOut
                    \o Emitted(logger', "console", set_logger_verbosity(logger, v).calls)
               /\ fileOut' = fileOut
                    \o Emitted(logger', "file", set_logger_verbosity(logger, v).calls)
               /\ UNCHANGED exitCode
  /\ UNCHANGED <<lastCall, setupCalls, logCalls, memFile, memCall, configurations,
                 providers, closeIdx, selected, exit_state, start_time, raisedIn,
                 propagated>>

\* lines 217-232: the parsed command line, then the exactly-one-action test.
\* ctx.fail raises click.UsageError, which click turns into exit code 2.
MainValidate ==
  /\ pc = "loaded"
  /\ \E fl \in [1..7 -> BOOLEAN], cid \in ClusterIds, dbg \in BOOLEAN, v \in 0..MaxVerbosity :
       /\ args' = [version |-> fl[1], terminate |-> fl[2], create |-> fl[3],
                   list |-> fl[4], check |-> fl[5], ide |-> fl[6], update |-> fl[7],
                   cluster_id |-> cid, debug |-> dbg, verbose |-> v]
       /\ IF usage_error(actions_of(args'))
          THEN /\ pc' = "exited"
               /\ exitCode' = 2
               /\ trace' = trace \o << Ev("main", cid), Ev("usage_error", None) >>
          ELSE /\ pc' = "main_read"
               /\ trace' = Append(trace, Ev("main", cid))
               /\ UNCHANGED exitCode
  /\ UNCHANGED <<loggerVars, memFile, memCall, configurations, providers, closeIdx,
                 selected, exit_state, start_time, raisedIn, propagated>>

\* lines 237-239
MainReadConfiguration ==
  /\ pc = "main_read"
  /\ \E r \in {"none", "empty", "ok"} :
       /\ configurations' = r
       /\ IF r # "ok"
          THEN pc' = "exited" /\ exitCode' = 1
          ELSE pc' = "main_merge" /\ UNCHANGED exitCode
  /\ trace' = Append(trace, Ev("read_configuration", None))
  /\ UNCHANGED <<loggerVars, args, memFile, memCall, providers, closeIdx,
                 selected, exit_state, start_time, raisedIn, propagated>>

\* lines 241-270.  When the merged configuration is falsy, main returns and
\* click's standalone mode ends the process with exit code 0.
MainMergeConfigurations ==
  /\ pc = "main_merge"
  /\ \E r \in {"none", "ok"} :
       /\ configurations' = r
       /\ IF r = "ok"
          THEN pc' = "run_action" /\ UNCHANGED exitCode
          ELSE pc' = "exited" /\ exitCode' = 0
  /\ trace' = Append(trace, Ev("merge_configurations", None))
  /\ UNCHANGED <<loggerVars, args, memFile, memCall, providers, closeIdx,
                 selected, exit_state, start_time, raisedIn, propagated>>

\* the timestamp is taken before the version test
RunActionEnter_timer_first ==
  /\ pc = "run_action"
  /\ start_time' = "set"
  /\ IF args.version
     THEN /\ Log(<< Rec(INFO, "action_selected") >>)
          /\ pc' = "ra_version"
          /\ trace' = trace \o << Ev("run_action", None), Ev("start_time", None) >>
          /\ UNCHANGED exit_state
     ELSE /\ exit_state' = 0
          /\ pc' = "ra_get_providers"
          /\ trace' = trace \o << Ev("run_action", None), Ev("start_time", None) >>
          /\ UNCHANGED <<consoleOut, fileOut>>
  /\ UNCHANGED <<logger, lastCall, setupCalls, logCalls, args, memFile, memCall,
                 configurations, providers, closeIdx, selected, exitCode,
                 raisedIn, propagated>>

\* lines 114-120
RunActionEnter ==
  /\ pc = "run_action"
  /\ IF args.version
     THEN /\ Log(<< Rec(INFO, "action_selected") >>)
          /\ pc' = "ra_version"
          /\ trace' = Append(trace, Ev("run_action", None))
          /\ UNCHANGED <<start_time, exit_state>>
     ELSE /\ start_time' = "set"
          /\ exit_state' = 0
          /\ pc' = "ra_get_providers"
          /\ trace' = trace \o << Ev("run_action", None), Ev("start_time", None) >>
          /\ UNCHANGED <<consoleOut, fileOut>>
  /\ UNCHANGED <<logger, lastCall, setupCalls, logCalls, args, memFile, memCall,
                 configurations, providers, closeIdx, selected, exitCode,
                 raisedIn, propagated>>

\* lines 116-117: version.version(logger) is called outside the try block
RunActionVersion ==
  /\ pc = "ra_version"
  /\ selected' = "version"
  /\ \E raises \in BOOLEAN :
       IF raises
       THEN /\ pc' = "exited"
            /\ exitCode' = 1
            /\ propagated' = TRUE
            /\ raisedIn' = "action"
            /\ trace' = Append(trace, Ev("invoke", "version"))
            /\ UNCHANGED exit_state
       ELSE /\ pc' = "ra_returned"
            /\ exit_state' = 0
            /\ trace' = trace \o << Ev("invoke", "version"), Ev("return", None) >>
            /\ UNCHANGED <<exitCode, propagated, raisedIn>>
  /\ UNCHANGED <<loggerVars, args, memFile, memCall, configurations, providers,
                 closeIdx, start_time>>

\* the else branch of line 158 is missing: an empty provider list leaves exit_state 0
RunActionGetProviders_no_else ==
  /\ pc = "ra_get_providers"
  /\ \/ /\ pc' = "ra_except"
        /\ raisedIn' = "get_providers"
        /\ UNCHANGED <<providers, exit_state>>
     \/ \E n \in 0..MaxProviders :
          /\ providers' = [bound |-> TRUE, closed |-> [i \in 1..n |-> 0]]
          /\ pc' = IF n > 0 THEN "ra_dispatch" ELSE "ra_elapsed"
          /\ UNCHANGED <<exit_state, raisedIn>>
  /\ trace' = Append(trace, Ev("get_providers", None))
  /\ UNCHANGED <<loggerVars, args, memFile, memCall, configurations, closeIdx,
                 selected, exitCode, start_time, propagated>>

\* line 122: get_providers raises, or returns a list of 0..MaxProviders handles
RunActionGetProviders ==
  /\ pc = "ra_get_providers"
  /\ \/ /\ pc' = "ra_except"
        /\ raisedIn' = "get_providers"
        /\ UNCHANGED <<providers, exit_state>>
     \/ \E n \in 0..MaxProviders :
          /\ providers' = [bound |-> TRUE, closed |-> [i \in 1..n |-> 0]]
          /\ IF n > 0
             THEN pc' = "ra_dispatch" /\ UNCHANGED exit_state
             ELSE pc' = "ra_elapsed" /\ exit_state' = 1
          /\ UNCHANGED raisedIn
  /\ trace' = Append(trace, Ev("get_providers", None))
  /\ UNCHANGED <<loggerVars, args, memFile, memCall, configurations, closeIdx,
                 selected, exitCode, start_time, propagated>>

\* the list and check branches call each other's entry point
RunActionDispatch_swapped ==
  /\ pc = "ra_dispatch"
  /\ IF args.list \/ args.check \/ args.create
     THEN /\ selected' = IF args.list THEN "check"
                         ELSE IF args.check THEN "list" ELSE "create"
          /\ Log(<< Rec(INFO, "action_selected") >>)
          /\ pc' = "ra_act"
     ELSE /\ pc' = "ra_cluster_id"
          /\ UNCHANGED <<selected, consoleOut, fileOut>>
  /\ UNCHANGED <<logger, lastCall, setupCalls, logCalls, args, memFile, memCall,
                 configurations, providers, closeIdx, exit_state, exitCode,
                 start_time, trace, raisedIn, propagated>>

\* lines 124-137: the branches that need no cluster id
RunActionDispatch ==
  /\ pc = "ra_dispatch"
  /\ IF args.list \/ args.check \/ args.create
     THEN /\ selected' = IF args.list THEN "list"
                         ELSE IF args.check THEN "check" ELSE "create"
          /\ Log(<< Rec(INFO, "action_selected") >>)
          /\ pc' = "ra_act"
     ELSE /\ pc' = "ra_cluster_id"
          /\ UNCHANGED <<selected, consoleOut, fileOut>>
  /\ UNCHANGED <<logger, lastCall, setupCalls, logCalls, args, memFile, memCall,
                 configurations, providers, closeIdx, exit_state, exitCode,
                 start_time, trace, raisedIn, propagated>>

\* lines 138-151: the cluster-id fallback and the branches that need the id
RunActionClusterId ==
  /\ pc = "ra_cluster_id"
  /\ LET lookup == ~Truthy(args.cluster_id)
         r == get_cluster_id_from_mem(memFile)
         cid == IF lookup THEN r.value ELSE args.cluster_id
         branch == IF args.terminate THEN "terminate"
                   ELSE IF args.ide THEN "ide"
                   ELSE IF args.update THEN "update" ELSE None
         fallback == IF lookup THEN << Rec(INFO, "no_cid") >> ELSE << >>
     IN IF lookup /\ r.raised
        THEN /\ memCall' = r
             /\ trace' = Append(trace, Ev("mem_lookup", None))
             /\ pc' = "ra_except"
             /\ raisedIn' = "mem"
             /\ UNCHANGED <<args, selected, consoleOut, fileOut>>
        ELSE /\ memCall' = IF lookup THEN r ELSE memCall
             /\ trace' = IF lookup THEN Append(trace, Ev("mem_lookup", None)) ELSE trace
             /\ args' = [args EXCEPT !.cluster_id = cid]
             /\ UNCHANGED raisedIn
             /\ IF Truthy(cid) /\ branch # None
                THEN /\ selected' = branch
                     /\ Log(fallback \o << Rec(INFO, "action_selected") >>)
                     /\ pc' = "ra_act"
                ELSE /\ Log(fallback)
                     /\ pc' = "ra_close"
                     /\ UNCHANGED selected
  /\ UNCHANGED <<logger, lastCall, setupCalls, logCalls, memFile, configurations,
                 providers, closeIdx, exit_state, exitCode, start_time, propagated>>

\* an action raised and nothing catches it
RunActionAct_raise_uncaught ==
  /\ pc' = "exited"
  /\ raisedIn' = "action"
  /\ exitCode' = 1
  /\ propagated' = TRUE
  /\ UNCHANGED exit_state

\* an action raised: control goes to the except clause of line 160
RunActionAct_raise ==
  /\ pc' = "ra_except"
  /\ raisedIn' = "action"
  /\ UNCHANGED <<exit_state, exitCode, propagated>>

\* the call of the selected entry point, and the cluster id passed to it
\* (lines 126, 145, 149, 154)
Invocation ==
  << Ev("invoke", selected) >>
    \o (IF selected \in {"list", "terminate", "ide", "update"}
        THEN << Ev("cluster_id_arg", args.cluster_id) >> ELSE << >>)

\* the entry point returned the exit code c
ActionReturned(c) == [ev |-> "action_returned", what |-> selected, code |-> c]

\* lines 134-135
CreateNotice ==
  IF selected = "create" THEN << Rec(PRINT_LEVEL, "create_notice") >> ELSE << >>

\* after the action returns, the providers are not released
RunActionAct_skips_close ==
  /\ pc = "ra_act"
  /\ \/ /\ selected = "create"
        /\ RunActionAct_raise
        /\ trace' = trace \o Invocation
        /\ UNCHANGED <<consoleOut, fileOut>>
     \/ /\ RunActionAct_raise
        /\ trace' = trace \o Invocation
        /\ Log(CreateNotice)
     \/ \E c \in 0..MaxExitCode :
          /\ exit_state' = c
          /\ pc' = "ra_elapsed"
          /\ trace' = trace \o Invocation \o << ActionReturned(c) >>
          /\ Log(CreateNotice)
          /\ UNCHANGED <<raisedIn, exitCode, propagated>>
  /\ UNCHANGED <<logger, lastCall, setupCalls, logCalls, args, memFile, memCall,
                 configurations, providers, closeIdx, selected, start_time>>

\* the exit code of the entry point is dropped
RunActionAct_ignores_code ==
  /\ pc = "ra_act"
  /\ \/ /\ selected = "create"
        /\ RunActionAct_raise
        /\ trace' = trace \o Invocation
        /\ UNCHANGED <<consoleOut, fileOut>>
     \/ /\ RunActionAct_raise
        /\ trace' = trace \o Invocation
        /\ Log(CreateNotice)
     \/ \E c \in 0..MaxExitCode :
          /\ pc' = "ra_close"
          /\ trace' = trace \o Invocation \o << ActionReturned(c) >>
          /\ Log(CreateNotice)
          /\ UNCHANGED <<exit_state, raisedIn, exitCode, propagated>>
  /\ UNCHANGED <<logger, lastCall, setupCalls, logCalls, args, memFile, memCall,
                 configurations, providers, closeIdx, selected, start_time>>

\* lines 126, 129, 132-136, 145, 149, 152-155: the entry point of the selected
\* action returns an exit code or raises.  For create, the constructor may raise
\* before the notice of line 134 is logged.
RunActionAct ==
  /\ pc = "ra_act"
  /\ \/ /\ selected = "create"
        /\ RunActionAct_raise
        /\ trace' = trace \o Invocation
        /\ UNCHANGED <<consoleOut, fileOut>>
     \/ /\ RunActionAct_raise
        /\ trace' = trace \o Invocation
        /\ Log(CreateNotice)
     \/ \E c \in 0..MaxExitCode :
          /\ exit_state' = c
          /\ pc' = "ra_close"
          /\ trace' = trace \o Invocation \o << ActionReturned(c) >>
          /\ Log(CreateNotice)
          /\ UNCHANGED <<raisedIn, exitCode, propagated>>
  /\ UNCHANGED <<logger, lastCall, setupCalls, logCalls, args, memFile, memCall,
                 configurations, providers, closeIdx, selected, start_time>>

\* lines 156-157: one iteration of the loop; close() returns or raises
RunActionClose ==
  /\ pc = "ra_close"
  /\ closeIdx < Len(providers.closed)
  /\ providers' = [providers EXCEPT !.closed[closeIdx + 1] = @ + 1]
  /\ closeIdx' = closeIdx + 1
  /\ trace' = Append(trace, Ev("close", None))
  /\ \/ /\ pc' = "ra_except"
        /\ raisedIn' = "close"
     \/ /\ pc' = IF closeIdx + 1 = Len(providers.closed) THEN "ra_elapsed" ELSE "ra_close"
        /\ UNCHANGED raisedIn
  /\ UNCHANGED <<loggerVars, args, memFile, memCall, configurations, selected,
                 exit_state, exitCode, start_time, propagated>>

\* the except clause returns at once
RunActionExcept_returns ==
  /\ pc = "ra_except"
  /\ Log(<< Rec(ERROR, IF args.debug THEN "error_trace" ELSE "error_message") >>)
  /\ exit_state' = 2
  /\ pc' = "ra_returned"
  /\ trace' = trace \o << Ev("except", None), Ev("return", None) >>
  /\ UNCHANGED <<logger, lastCall, setupCalls, logCalls, args, memFile, memCall,
                 configurations, providers, closeIdx, selected, exitCode,
                 start_time, raisedIn, propagated>>

\* lines 160-166
RunActionExcept ==
  /\ pc = "ra_except"
  /\ Log(<< Rec(ERROR, IF args.debug THEN "error_trace" ELSE "error_message") >>)
  /\ exit_state' = 2
  /\ pc' = "ra_elapsed"
  /\ trace' = Append(trace, Ev("except", None))
  /\ UNCHANGED <<logger, lastCall, setupCalls, logCalls, args, memFile, memCall,
                 configurations, providers, closeIdx, selected, exitCode,
                 start_time, raisedIn, propagated>>

\* lines 167-169
RunActionElapsed ==
  /\ pc = "ra_elapsed"
  /\ Log(<< Rec(PRINT_LEVEL, "elapsed") >>)
  /\ pc' = "ra_returned"
  /\ trace' = trace \o << Ev("elapsed", None), Ev("return", None) >>
  /\ UNCHANGED <<logger, lastCall, setupCalls, logCalls, args, memFile, memCall,
                 configurations, providers, closeIdx, selected, exit_state,
                 exitCode, start_time, raisedIn, propagated>>

\* line 270: sys.exit(run_action(...))
MainExit ==
  /\ pc = "ra_returned"
  /\ exitCode' = exit_state
  /\ pc' = "exited"
  /\ UNCHANGED <<loggerVars, args, memFile, memCall, configurations, providers,
                 closeIdx, selected, exit_state, start_time, trace, raisedIn,
                 propagated>>

Next ==
  \/ ModuleLoad
  \/ MainValidate
  \/ MainReadConfiguration
  \/ MainMergeConfigurations
  \/ RunActionEnter
  \/ RunActionVersion
  \/ RunActionGetProviders
  \/ RunActionDispatch
  \/ RunActionClusterId
  \/ RunActionAct
  \/ RunActionClose
  \/ RunActionExcept
  \/ RunActionElapsed
  \/ MainExit

Spec == Init /\ [][Next]_vars

(***************************************************************************)
(* Observations used by the properties.                                    *)
(***************************************************************************)
Has(ev) == \E i \in DOMAIN trace : trace[i].ev = ev
Invoked == {trace[i].what : i \in {j \in DOMAIN trace : trace[j].ev = "invoke"}}
InvokeCount == Cardinality({j \in DOMAIN trace : trace[j].ev = "invoke"})
RunActionReturned == Has("return")
ProvidersAcquired == providers.bound /\ Len(providers.closed) > 0
NeedsClusterId == args.terminate \/ args.ide \/ args.update
LinesWith(out, msg) == {i \in DOMAIN out : out[i].msg = msg}
LinesAt(out, lvl) == {i \in DOMAIN out : out[i].lvl = lvl}
OneElapsedLine(out) ==
  /\ Cardinality(LinesWith(out, "elapsed")) = 1
  /\ \A i \in LinesWith(out, "elapsed") : out[i].lvl = PRINT_LEVEL
NoElapsedLine == LinesWith(consoleOut, "elapsed") = {} /\ LinesWith(fileOut, "elapsed") = {}
ConsoleHandlers == {i \in DOMAIN logger.handlers : logger.handlers[i].kind = "console"}
FileHandlers == {i \in DOMAIN logger.handlers : logger.handlers[i].kind = "file"}

\* the least severity the console sink emits
EffectiveConsoleThreshold ==
  CHOOSE l \in 0..50 :
    /\ Lines(logger, "console", l) > 0
    /\ \A k \in 0..50 : Lines(logger, "console", k) > 0 => l <= k

(***************************************************************************)
(* C1: when get_providers returned a non-empty list, every provider has    *)
(* been closed exactly once by the time run_action has returned, on every  *)
(* exit path.  The code closes the providers only on the path that leaves  *)
(* the dispatch without an exception.                                      *)
(***************************************************************************)
C1_ProvidersClosedExactlyOnce ==
  (RunActionReturned /\ ProvidersAcquired)
    => \A i \in DOMAIN providers.closed : providers.closed[i] = 1

(***************************************************************************)
(* C2: terminate, ide or update selected, no cluster id supplied,          *)
(* providers non-empty and the cluster-memory file absent: run_action logs *)
(* a warning, invokes no action, returns 0 and emits the elapsed-time      *)
(* line.  The code raises NameError on the warning and returns 2.          *)
(***************************************************************************)
C2_AbsentMemoryIsNoOp ==
  (RunActionReturned /\ NeedsClusterId /\ ProvidersAcquired
     /\ memCall.called /\ memFile = "absent")
    => /\ memCall.warnings >= 1
       /\ InvokeCount = 0
       /\ exit_state = 0
       /\ OneElapsedLine(consoleOut)

(***************************************************************************)
(* C3: get_cluster_id_from_mem never raises: it yields None when the file  *)
(* is absent, unparseable or lacks cluster_id, and the stored identifier   *)
(* otherwise.                                                              *)
(***************************************************************************)
C3_MemReaderNeverRaises ==
  (memCall.called /\ memFile \in {"absent", "unparseable", "no_field", "valid"})
    => /\ ~memCall.raised
       /\ memCall.value = (IF memFile = "valid" THEN StoredClusterId ELSE None)

(***************************************************************************)
(* C4: every run of run_action with a non-version action has emitted       *)
(* exactly one elapsed-time line, at severity 42, when it returns, and the *)
(* line is the last thing it does before returning.                        *)
(***************************************************************************)
C4_OneElapsedLinePerRun ==
  (RunActionReturned /\ ~args.version)
    => /\ OneElapsedLine(consoleOut)
       /\ OneElapsedLine(fileOut)
       /\ \E i \in DOMAIN trace :
            /\ i + 1 = Len(trace)
            /\ trace[i].ev = "elapsed"
            /\ trace[i + 1].ev = "return"

C4_Witness ==
  /\ pc = "exited"
  /\ RunActionReturned
  /\ raisedIn = "action"
  /\ OneElapsedLine(consoleOut)

(***************************************************************************)
(* C5, as stated: an exception raised while any action runs inside         *)
(* run_action does not propagate, exactly one error-severity message is    *)
(* logged (the trace with debug, the message without) and run_action       *)
(* returns 2.                                                              *)
(***************************************************************************)
ErrorLogged(out) ==
  /\ Cardinality(LinesAt(out, ERROR)) = 1
  /\ \A i \in LinesAt(out, ERROR) :
       out[i].msg = (IF args.debug THEN "error_trace" ELSE "error_message")

ActionFailureHandled ==
  /\ ~propagated
  /\ RunActionReturned
  /\ ErrorLogged(consoleOut)
  /\ ErrorLogged(fileOut)
  /\ exit_state = 2
  /\ pc = "exited" => exitCode = 2

C5_AnyActionFailureIsCaught ==
  (raisedIn = "action" /\ pc \in {"ra_returned", "exited"}) => ActionFailureHandled

(***************************************************************************)
(* C5, amended: the same for an exception raised while a non-version       *)
(* action (list, check, create, terminate, ide, update) runs; the version  *)
(* action is called before the try block.                                  *)
(***************************************************************************)
C5_DispatchedActionFailureIsCaught ==
  (raisedIn = "action" /\ selected # "version" /\ pc \in {"ra_returned", "exited"})
    => ActionFailureHandled

C5_Witness ==
  /\ pc = "exited"
  /\ raisedIn = "action"
  /\ selected = "terminate"
  /\ args.debug
  /\ exit_state = 2

(***************************************************************************)
(* C6: in main, a flag combination whose number of true action flags is    *)
(* not 1 ends the process with a usage error (non-zero exit) before        *)
(* read_configuration is called and without entering run_action; with      *)
(* exactly one true flag there is no usage error and main goes on to read  *)
(* the configuration.                                                      *)
(***************************************************************************)
C6_ExactlyOneAction ==
  Has("main") =>
    IF sum(actions_of(args)) # 1
    THEN /\ Has("usage_error")
         /\ pc = "exited"
         /\ exitCode # 0
         /\ ~Has("read_configuration")
         /\ ~Has("run_action")
    ELSE /\ ~Has("usage_error")
         /\ pc = "main_read" \/ Has("read_configuration")

C6_Witness ==
  /\ Has("usage_error")
  /\ sum(actions_of(args)) = 0
  /\ pc = "exited"

(***************************************************************************)
(* C7: when read_configuration or merge_configurations yields none, the    *)
(* process exits with code 1 without calling run_action, acquiring a       *)
(* provider or emitting the elapsed-time line.  After a failed merge the   *)
(* code lets main return, and the process exits with code 0.               *)
(***************************************************************************)
C7_ConfigurationFailureExitsOne ==
  (pc = "exited" /\ configurations \in {"none", "empty"})
    => /\ exitCode = 1
       /\ ~Has("run_action")
       /\ ~providers.bound
       /\ NoElapsedLine

(***************************************************************************)
(* C8: once the logger is initialized, whatever verbosity has been applied *)
(* through set_logger_verbosity, a message logged at DEBUG, INFO, WARNING  *)
(* or ERROR reaches the file sink.  The code applies the verbosity to the  *)
(* channel gate, not to the console sink, so the gate filters the file     *)
(* sink as well.                                                           *)
(***************************************************************************)
C8_FileSinkGetsEveryBuiltInSeverity ==
  (pc = "api" /\ setupCalls >= 1 /\ lastCall.op = "log"
     /\ lastCall.arg \in BuiltInSeverities)
    => lastCall.file >= 1

(***************************************************************************)
(* C9: after set_logger_verbosity(logger, v) with v >= 0 the least         *)
(* severity the console emits is VERBOSITY_LIST[min(v, 2)]: WARNING for 0, *)
(* INFO for 1, DEBUG for every v >= 2; the index is always in range.       *)
(***************************************************************************)
ExpectedThreshold(v) == IF v = 0 THEN WARNING ELSE IF v = 1 THEN INFO ELSE DEBUG

C9_ThresholdIsClampedVerbosity ==
  lastCall.op = "set_logger_verbosity"
    => /\ capped_verbosity(lastCall.arg) + 1 \in DOMAIN VERBOSITY_LIST
       /\ EffectiveConsoleThreshold = ExpectedThreshold(lastCall.arg)

C9_Witness ==
  /\ lastCall.op = "set_logger_verbosity"
  /\ lastCall.arg = 3
  /\ EffectiveConsoleThreshold = DEBUG

(***************************************************************************)
(* C10: after one or more setup_logger calls the channel has exactly one   *)
(* console sink and one file sink, and a message logged then produces      *)
(* exactly one line on each sink.                                          *)
(***************************************************************************)
C10_ReinitializationIsIdempotent ==
  (pc = "api" /\ setupCalls >= 1)
    => /\ Cardinality(ConsoleHandlers) = 1
       /\ Cardinality(FileHandlers) = 1
       /\ lastCall.op = "log"
            => /\ lastCall.console <= 1
               /\ lastCall.file <= 1
               /\ isEnabledFor(logger, lastCall.arg)
                    => lastCall.console = 1 /\ lastCall.file = 1

C10_Witness ==
  /\ setupCalls = 2
  /\ lastCall.op = "log"
  /\ lastCall.console = 1
  /\ lastCall.file = 1

(***************************************************************************)
(* C11: the announcement severity 42 is strictly greater than every        *)
(* severity set_logger_verbosity can install, so whatever verbosity has    *)
(* been applied, a message logged at severity 42 is emitted by the console *)
(* sink.                                                                   *)
(***************************************************************************)
C11_AnnouncementNeverSuppressed ==
  /\ \A i \in DOMAIN VERBOSITY_LIST : PRINT_LEVEL > VERBOSITY_LIST[i]
  /\ (pc = "api" /\ setupCalls >= 1)
       => /\ isEnabledFor(logger, PRINT_LEVEL)
          /\ Lines(logger, "console", PRINT_LEVEL) >= 1
          /\ (lastCall.op = "log" /\ lastCall.arg = PRINT_LEVEL) => lastCall.console >= 1

C11_Witness ==
  /\ pc = "api"
  /\ logger.level = WARNING
  /\ lastCall.op = "log"
  /\ lastCall.arg = PRINT_LEVEL
  /\ lastCall.console = 1

(***************************************************************************)
(* C12: when the version action is selected, run_action calls the version  *)
(* entry point and, when that returns, returns 0 at once: get_providers is *)
(* never called, no provider is closed, no start timestamp is taken and no *)
(* elapsed-time line is emitted.  Every other action takes the timestamp,  *)
(* calls get_providers and emits the elapsed-time line.                    *)
(***************************************************************************)
C12_VersionBypassesProviderLifecycle ==
  Has("run_action") =>
    IF args.version
    THEN /\ ~Has("get_providers")
         /\ ~providers.bound
         /\ ~Has("close")
         /\ start_time = "unset"
         /\ ~Has("start_time")
         /\ NoElapsedLine
         /\ Invoked \subseteq {"version"}
         /\ RunActionReturned
              => /\ Invoked = {"version"}
                 /\ exit_state = 0
                 /\ trace[Len(trace) - 1] = Ev("invoke", "version")
         /\ (pc = "exited" /\ ~propagated) => exitCode = 0
    ELSE /\ start_time = "set"
         /\ "version" \notin Invoked
         /\ RunActionReturned => Has("get_providers") /\ ~NoElapsedLine

C12_Witness ==
  /\ pc = "exited"
  /\ args.version
  /\ Invoked = {"version"}
  /\ exitCode = 0
  /\ start_time = "unset"

(***************************************************************************)
(* C13: when get_providers returns an empty list for a non-version action, *)
(* run_action returns 1, invokes no action entry point, calls no close(),  *)
(* does not consult the cluster-memory record and still emits the          *)
(* elapsed-time line.                                                      *)
(***************************************************************************)
NoProvidersAcquired == providers.bound /\ Len(providers.closed) = 0

C13_NoProvidersReturnsOne ==
  NoProvidersAcquired =>
    /\ InvokeCount = 0
    /\ ~Has("close")
    /\ ~memCall.called
    /\ ~Has("mem_lookup")
    /\ ~Has("except")
    /\ exit_state = 1
    /\ RunActionReturned => OneElapsedLine(consoleOut) /\ OneElapsedLine(fileOut)
    /\ pc = "exited" => RunActionReturned /\ exitCode = 1

C13_Witness ==
  /\ pc = "exited"
  /\ NoProvidersAcquired
  /\ ~args.version
  /\ exitCode = 1
  /\ OneElapsedLine(consoleOut)

(***************************************************************************)
(* C14: terminate, ide or update selected with providers acquired.  When   *)
(* no cluster id was supplied and the cluster-memory record holds a valid  *)
(* cluster_id, the selected action is invoked with exactly the stored      *)
(* identifier; when a cluster id was supplied, the record is not read and  *)
(* the action is invoked with the supplied identifier.                     *)
(***************************************************************************)
SuppliedClusterId ==
  LET i == CHOOSE j \in DOMAIN trace : trace[j].ev = "main" IN trace[i].what

\* the cluster ids passed to the entry point of the selected action
PassedClusterIds ==
  {trace[i].what : i \in {j \in DOMAIN trace : trace[j].ev = "cluster_id_arg"}}

PastClusterIdStep == pc \in {"ra_act", "ra_close", "ra_except", "ra_elapsed", "ra_returned", "exited"}

C14_ClusterIdFallback ==
  (Has("main") /\ NeedsClusterId /\ ProvidersAcquired /\ PastClusterIdStep)
    => IF Truthy(SuppliedClusterId)
       THEN /\ ~memCall.called
            /\ ~Has("mem_lookup")
            /\ selected \in {"terminate", "ide", "update"}
            /\ args[selected]
            /\ pc # "ra_act" => Invoked = {selected}
                                /\ PassedClusterIds = {SuppliedClusterId}
       ELSE memFile = "valid"
              => /\ memCall.called
                 /\ selected \in {"terminate", "ide", "update"}
                 /\ args[selected]
                 /\ pc # "ra_act" => Invoked = {selected}
                                     /\ PassedClusterIds = {StoredClusterId}

C14_Witness ==
  /\ pc = "exited"
  /\ args.ide
  /\ ~Truthy(SuppliedClusterId)
  /\ memFile = "valid"
  /\ Invoked = {"ide"}
  /\ PassedClusterIds = {StoredClusterId}

(***************************************************************************)
(* C15, as stated: when the selected action returns an exit code c without *)
(* raising, run_action returns exactly c; run_action returns its own codes *)
(* only on the paths it owns: 0 when no branch ran with providers present, *)
(* 1 when no providers were acquired, 2 when an exception was caught.      *)
(***************************************************************************)
ActionCodes ==
  {trace[i].code : i \in {j \in DOMAIN trace : trace[j].ev = "action_returned"}}

OwnExitCodes ==
  (RunActionReturned /\ ~args.version /\ ActionCodes = {})
    => /\ (ProvidersAcquired /\ InvokeCount = 0 /\ ~Has("except")) => exit_state = 0
       /\ NoProvidersAcquired => exit_state = 1
       /\ Has("except") => exit_state = 2

C15_ActionCodePassedThrough ==
  /\ (RunActionReturned /\ ActionCodes # {}) => ActionCodes = {exit_state}
  /\ OwnExitCodes

(***************************************************************************)
(* C15, amended: when the selected action returns an exit code c without   *)
(* raising and no close() of the loop that follows raises, run_action      *)
(* returns exactly c; when a close() raises, the exception is caught and   *)
(* run_action returns 2 whatever c was.  The codes of the paths run_action *)
(* owns are as stated.                                                     *)
(***************************************************************************)
C15_ActionCodePassedThroughUnlessCloseRaises ==
  /\ (RunActionReturned /\ ActionCodes # {})
       => IF Has("except")
          THEN raisedIn = "close" /\ exit_state = 2
          ELSE ActionCodes = {exit_state}
  /\ OwnExitCodes

C15_Witness ==
  /\ pc = "exited"
  /\ ActionCodes = {1}
  /\ ~Has("except")
  /\ exitCode = 1
  /\ \A i \in DOMAIN providers.closed : providers.closed[i] = 1

(***************************************************************************)
(* C16: in a run of run_action entered with exactly one action flag true,  *)
(* at most one action entry point is invoked, and an entry point that is   *)
(* invoked is the one whose flag is true.                                  *)
(***************************************************************************)
C16_AtMostOneActionInvoked ==
  (Has("run_action") /\ sum(actions_of(args)) = 1)
    => /\ InvokeCount <= 1
       /\ \A a \in Invoked : args[a]
       /\ selected # None => args[selected]

C16_Witness ==
  /\ pc = "exited"
  /\ sum(actions_of(args)) = 1
  /\ args.update
  /\ InvokeCount = 1
  /\ Invoked = {"update"}

(***************************************************************************)
(* C17: every run of run_action follows the state paths in order.  An      *)
(* action entry point (other than version) is invoked only after providers *)
(* were acquired and before any provider is closed; providers are closed   *)
(* only after the action has finished, and never after a failure; the      *)
(* elapsed-time line comes right after the release step, the failure step  *)
(* or the empty get_providers, and is the last event before the return; a  *)
(* run that invoked an action returns only after all providers were        *)
(* released or after the failure step.                                     *)
(***************************************************************************)
Idx(ev) == {i \in DOMAIN trace : trace[i].ev = ev}
DispatchedInvokes == {i \in Idx("invoke") : trace[i].what # "version"}
AllProvidersReleased ==
  /\ ProvidersAcquired
  /\ closeIdx = Len(providers.closed)
  /\ \A i \in DOMAIN providers.closed : providers.closed[i] = 1

C17_StatePathsInOrder ==
  /\ \A i \in DispatchedInvokes :
       /\ ProvidersAcquired
       /\ \E j \in Idx("get_providers") : j < i
       /\ \A k \in Idx("close") : k > i
  /\ \A k \in Idx("close") :
       /\ DispatchedInvokes # {} => \E r \in Idx("action_returned") : r < k
       /\ \A e \in Idx("except") : e > k
  /\ \A e \in Idx("elapsed") :
       /\ e > 1
       /\ e + 1 = Len(trace)
       /\ trace[e + 1].ev = "return"
       /\ \/ trace[e - 1].ev = "close" /\ AllProvidersReleased
          \/ trace[e - 1].ev = "except"
          \/ trace[e - 1].ev = "get_providers" /\ NoProvidersAcquired
  /\ (RunActionReturned /\ DispatchedInvokes # {})
       => /\ Has("elapsed")
          /\ (AllProvidersReleased /\ ~Has("except")) \/ Has("except")
  /\ (RunActionReturned /\ ~args.version) => Has("elapsed")

C17_Witness ==
  /\ pc = "exited"
  /\ selected = "check"
  /\ DispatchedInvokes # {}
  /\ Idx("action_returned") # {}
  /\ AllProvidersReleased
  /\ Len(providers.closed) = 2
  /\ Has("elapsed")

(***************************************************************************)
(* C18: the --verbosity value has no effect on logging.  The logger is     *)
(* initialized and its threshold set once, at module load, with verbosity  *)
(* 1; main never applies the supplied value, so whatever --verbosity is,   *)
(* the threshold in effect from module load to exit is INFO and the one    *)
(* set_logger_verbosity confirmation (logged at DEBUG) is never emitted.   *)
(***************************************************************************)
ModuleLoaded == pc # "init" /\ raisedIn # "setup_logger"

====
